---- MODULE Spec2Model ----
(***************************************************************************)
(* Word-level model of the explicit-free-list allocator of mm.c.           *)
(*                                                                         *)
(* The arena is a function from 4-byte-aligned byte addresses to 32-bit    *)
(* words.  Boundary tags occupy one word; a free-list link (an 8-byte      *)
(* pointer of the LP64 target, MINCHUNKSIZE = 24) occupies two words, the  *)
(* low word first.  Every helper of mm.c is an operator that takes the     *)
(* allocator state as a record s = [mem, brk, dl_start, dl_end] and        *)
(* returns the state it leaves (with the returned pointer where the C      *)
(* function returns one); every public entry point is one action.          *)
(***************************************************************************)
EXTENDS Integers, Sequences, FiniteSets, TLC

(* ---------------------------- bounds ---------------------------------- *)
\* Largest arena the growth primitive hands out, in bytes: the four words
\* of mm_init, its 24-byte first block and one 512-byte extension.
MaxHeap == 552
\* Number of blocks the client holds at the same time.
MaxLive == 3
\* Number of calls and stores the client makes after mm_init.
MaxOps == 5

(* ------------------------ program constants --------------------------- *)
WSIZE == 4
DSIZE == 8
\* 1*sizeof(uint32_t) + 2*sizeof(void*) + 1*sizeof(uint32_t) with 8-byte pointers
MINCHUNKSIZE == 1 * 4 + 2 * 8 + 1 * 4
\* 1<<9, the least number of bytes mm_malloc asks the arena to grow by
EXTENDSIZE == 512
NULL == 0
\* (void *)-1, mem_sbrk's failure value
SBRK_FAILED == -1
\* First byte of the arena (memlib's mem_start_brk); 8-byte aligned.
mem_start_brk == 4096
\* sizeof(size_t) on the LP64 target
SIZE_T_BYTES == 8

\* Request sizes the client draws from.  0: the spurious request; 16: a
\* minimum block (24 bytes); 45: not a multiple of the word size, a 56-byte
\* block, and within 8 bytes of two minimum blocks taken together; 456:
\* exactly what a 512-byte extension leaves after two minimum blocks.
ReqSizes == {0, 16, 45, 456}
\* calloc's arguments <<nmemb, size>>, each hi * 2^32 + lo: of product 0, 16
\* and 456, and (2^61 + 2) * 8 = 2^64 + 16, which does not fit size_t.
CallocArgs == {<<<<0, 0>>, <<0, 4>>>>, <<<<0, 4>>, <<0, 4>>>>, <<<<0, 57>>, <<0, 8>>>>,
               <<<<2 ^ 29, 2>>, <<0, 8>>>>}
\* Arena limits (memlib's MAX_HEAP) the program may run under.
HeapLimits == {8, 16, 40, MaxHeap}

VARIABLES
    mem,           \* the arena: word address -> 32-bit word
    mem_brk,       \* memlib: first byte past the arena
    mem_max_addr,  \* memlib: the arena may not grow past this address
    heap_listp,    \* mm.c: pointer to first block
    dl_start,      \* mm.c: head of the free list
    dl_end,        \* mm.c: tail of the free list
    pc,            \* "start" before mm_init, "ready" after it returned 0,
                   \* "failed" after it returned -1, "fault" after a crash,
                   \* "overrun" after the client wrote past a block's payload,
                   \* "aborted" after checkheap called exit
    live,          \* client: pointer it holds -> size it asked for
    op,            \* client: the last call, its arguments and its result
    op0,           \* client: the first call of a run malloc(n); free of its
                   \* result; malloc(n), when the last call is the second or
                   \* the third call of such a run
    nops           \* client: calls and stores made so far

vars == <<mem, mem_brk, mem_max_addr, heap_listp, dl_start, dl_end, pc, live, op, op0, nops>>

WordAddrs == {a \in mem_start_brk .. (mem_start_brk + MaxHeap - 1) : a % 4 = 0}

MAX(x, y) == IF x > y THEN x ELSE y
MIN(x, y) == IF x < y THEN x ELSE y

(* ------------------------- memlib (arena growth) ----------------------- *)
mem_heap_lo == mem_start_brk
mem_heap_hi(s) == s.brk - 1

\* Grow the arena by incr bytes: the old break, or (void *)-1 and no change
\* when the arena would pass its limit.
mem_sbrk(s, incr) ==
    IF incr < 0 \/ s.brk + incr > mem_max_addr
    THEN [s |-> s, ret |-> SBRK_FAILED]
    ELSE [s |-> [s EXCEPT !.brk = s.brk + incr], ret |-> s.brk]

in_heap(s, p) == p <= mem_heap_hi(s) /\ p >= mem_heap_lo

aligned(p) == p % 8 = 0

(* --------------------------- block codec ------------------------------- *)
\* (size) | (alloc), for alloc in {0, 1}
PACK(size, alloc) == IF size % 2 = 1 THEN size ELSE size + alloc

GET(m, p) == m[p]
PUT(m, p, val) == [m EXCEPT ![p] = val]

\* GET(p) & ~0x7 and GET(p) & 0x1
GET_SIZE(m, p) == GET(m, p) - (GET(m, p) % 8)
GET_ALLOC(m, p) == GET(m, p) % 2

HDRP(bp) == bp - WSIZE
FTRP(m, bp) == bp + GET_SIZE(m, HDRP(bp)) - DSIZE

NEXT_BLKP(m, bp) == bp + GET_SIZE(m, bp - WSIZE)
PREV_BLKP(m, bp) == bp - GET_SIZE(m, bp - DSIZE)

\* ((size) + (DSIZE-1)) & ~0x7
ALIGN(size) == (size + (DSIZE - 1)) - ((size + (DSIZE - 1)) % 8)

\* struct POINTERS laid over a free block's payload: prev at offset 0, next
\* at offset 8, each an 8-byte pointer stored low word first.  Addresses of
\* the model fit the low word, so the high word of a stored pointer is 0; a
\* high word that is not 0 reads back as a wild pointer (-1).
PrevOf(m, bp) == IF m[bp + 4] = 0 THEN m[bp] ELSE -1
NextOf(m, bp) == IF m[bp + 12] = 0 THEN m[bp + 8] ELSE -1
SetPrev(m, bp, v) == [m EXCEPT ![bp] = v, ![bp + 4] = 0]
SetNext(m, bp, v) == [m EXCEPT ![bp + 8] = v, ![bp + 12] = 0]

\* One statement after another: F applied to the value of v, which is
\* evaluated once.
With(v, F(_)) == CHOOSE r \in {F(x) : x \in {v}} : TRUE

\* PUT(HDRP(bp), val); PUT(FTRP(bp), val): the footer is found through the
\* header just written.
PutTags(m, bp, val) ==
    With(PUT(m, HDRP(bp), val), LAMBDA m1 : PUT(m1, FTRP(m1, bp), val))

(* -------------------------- free list manager -------------------------- *)
\* Mutant of add_freeblock: the old tail is not linked to the new node.
add_freeblock_nolink(s, bp) ==
    IF s.dl_start # NULL
    THEN [s EXCEPT !.mem = SetNext(SetPrev(s.mem, bp, s.dl_end), bp, NULL),
                   !.dl_end = bp]
    ELSE [s EXCEPT !.mem = SetPrev(SetNext(s.mem, bp, NULL), bp, NULL),
                   !.dl_start = bp, !.dl_end = bp]

add_freeblock(s, bp) ==
    IF s.dl_start # NULL
    THEN \* insert at the end
         [s EXCEPT !.mem = SetNext(SetNext(SetPrev(s.mem, bp, s.dl_end),
                                           s.dl_end, bp),
                                   bp, NULL),
                   !.dl_end = bp]
    ELSE \* list empty
         [s EXCEPT !.mem = SetPrev(SetNext(s.mem, bp, NULL), bp, NULL),
                   !.dl_start = bp, !.dl_end = bp]

\* Mutant of remove_freeblock: a middle item is unlinked from its
\* predecessor but not from its successor.
remove_freeblock_half(s, fb) ==
    IF s.dl_start = s.dl_end
    THEN [s EXCEPT !.dl_start = NULL, !.dl_end = NULL]
    ELSE IF s.dl_start = fb
    THEN [s EXCEPT !.dl_start = NextOf(s.mem, fb),
                   !.mem = SetPrev(s.mem, NextOf(s.mem, fb), NULL)]
    ELSE IF s.dl_end = fb
    THEN [s EXCEPT !.dl_end = PrevOf(s.mem, fb),
                   !.mem = SetNext(s.mem, PrevOf(s.mem, fb), NULL)]
    ELSE [s EXCEPT !.mem = SetNext(s.mem, PrevOf(s.mem, fb), NextOf(s.mem, fb))]

remove_freeblock(s, fb) ==
    IF s.dl_start = s.dl_end
    THEN \* only item
         [s EXCEPT !.dl_start = NULL, !.dl_end = NULL]
    ELSE IF s.dl_start = fb
    THEN \* first item
         [s EXCEPT !.dl_start = NextOf(s.mem, fb),
                   !.mem = SetPrev(s.mem, NextOf(s.mem, fb), NULL)]
    ELSE IF s.dl_end = fb
    THEN \* last item
         [s EXCEPT !.dl_end = PrevOf(s.mem, fb),
                   !.mem = SetNext(s.mem, PrevOf(s.mem, fb), NULL)]
    ELSE \* middle item
         With(SetNext(s.mem, PrevOf(s.mem, fb), NextOf(s.mem, fb)),
              LAMBDA m1 : [s EXCEPT !.mem = SetPrev(m1, NextOf(m1, fb), PrevOf(m1, fb))])

(* ------------------------------ fit finder ----------------------------- *)
\* The loop of find_fit from node bp on; the statements after its
\* unconditional return are never executed.
RECURSIVE find_fit_from(_, _, _)
find_fit_from(s, bp, asize) ==
    IF bp = NULL THEN NULL
    ELSE IF asize <= GET_SIZE(s.mem, HDRP(bp)) THEN bp
    ELSE find_fit_from(s, NextOf(s.mem, bp), asize)

\* Mutant of find_fit: best fit, the loop without its return; best is the
\* smallest fitting block seen so far.
RECURSIVE find_fit_best_from(_, _, _, _)
find_fit_best_from(s, bp, asize, best) ==
    IF bp = NULL THEN best
    ELSE IF asize <= GET_SIZE(s.mem, HDRP(bp))
            /\ (best = NULL \/ GET_SIZE(s.mem, HDRP(bp)) < GET_SIZE(s.mem, HDRP(best)))
    THEN find_fit_best_from(s, NextOf(s.mem, bp), asize, bp)
    ELSE find_fit_best_from(s, NextOf(s.mem, bp), asize, best)

find_fit_best(s, asize) == find_fit_best_from(s, s.dl_start, asize, NULL)

find_fit(s, asize) == find_fit_from(s, s.dl_start, asize)

(* ------------------------------- coalescer ----------------------------- *)
\* Mutant of coalesce: neighbours are never merged.
coalesce_nomerge(s, bp) == [s |-> s, ret |-> bp]

RECURSIVE coalesce(_, _)
coalesce(s, bp) ==
    LET prev_alloc == GET_ALLOC(s.mem, HDRP(PREV_BLKP(s.mem, bp)))
        next_alloc == GET_ALLOC(s.mem, HDRP(NEXT_BLKP(s.mem, bp)))
        size0 == GET_SIZE(s.mem, HDRP(bp))
    IN  IF prev_alloc = 1 /\ next_alloc = 1
        THEN [s |-> s, ret |-> bp]
        ELSE IF prev_alloc = 0
        THEN \* recursively coalesce prev blocks
             With(PREV_BLKP(s.mem, bp), LAMBDA pb : coalesce(s, pb))
        ELSE With(remove_freeblock(s, NEXT_BLKP(s.mem, bp)), LAMBDA s1 :
             With(size0 + GET_SIZE(s1.mem, HDRP(NEXT_BLKP(s1.mem, bp))), LAMBDA size :
             With([s1 EXCEPT !.mem = PutTags(s1.mem, bp, PACK(size, 0))], LAMBDA s2 :
                 IF GET_ALLOC(s2.mem, HDRP(NEXT_BLKP(s2.mem, bp))) = 0
                 THEN \* recursively coalesce next blocks
                      coalesce(s2, bp)
                 ELSE [s |-> s2, ret |-> bp])))

(* ----------------------------- allocator core -------------------------- *)
\* Mutant of extend_heap: a failed growth request empties the free list.
extend_heap_reset(s, words) ==
    LET size == IF words % 2 = 1 THEN (words + 1) * WSIZE ELSE words * WSIZE
    IN  With(mem_sbrk(s, size), LAMBDA r :
            IF r.ret = SBRK_FAILED
            THEN [s |-> [r.s EXCEPT !.dl_start = NULL, !.dl_end = NULL], ret |-> NULL]
            ELSE With(PutTags(r.s.mem, r.ret, PACK(size, 0)), LAMBDA m2 :
                 With(PUT(m2, HDRP(NEXT_BLKP(m2, r.ret)), PACK(0, 1)), LAMBDA m3 :
                 With(add_freeblock([r.s EXCEPT !.mem = m3], r.ret), LAMBDA s1 :
                     coalesce(s1, r.ret)))))

\* Mutant of extend_heap: the arena grows by a double word more than the
\* new block takes.
extend_heap_slack(s, words) ==
    LET size == IF words % 2 = 1 THEN (words + 1) * WSIZE ELSE words * WSIZE
    IN  With(mem_sbrk(s, size + DSIZE), LAMBDA r :
            IF r.ret = SBRK_FAILED
            THEN [s |-> r.s, ret |-> NULL]
            ELSE With(PutTags(r.s.mem, r.ret, PACK(size, 0)), LAMBDA m2 :
                 With(PUT(m2, HDRP(NEXT_BLKP(m2, r.ret)), PACK(0, 1)), LAMBDA m3 :
                 With(add_freeblock([r.s EXCEPT !.mem = m3], r.ret), LAMBDA s1 :
                     coalesce(s1, r.ret)))))

extend_heap(s, words) ==
    LET size == IF words % 2 = 1 THEN (words + 1) * WSIZE ELSE words * WSIZE
    IN  With(mem_sbrk(s, size), LAMBDA r :
            IF r.ret = SBRK_FAILED
            THEN [s |-> r.s, ret |-> NULL]
            ELSE With(PutTags(r.s.mem, r.ret, PACK(size, 0)), LAMBDA m2 :
                 With(PUT(m2, HDRP(NEXT_BLKP(m2, r.ret)), PACK(0, 1)), LAMBDA m3 :
                 With(add_freeblock([r.s EXCEPT !.mem = m3], r.ret), LAMBDA s1 :
                     \* coalesce if the previous block was free
                     coalesce(s1, r.ret)))))

\* The split of place and of shrink: the block at bp becomes an allocated
\* block of asize bytes, the rest of its csize bytes a free block that is
\* appended to the free list and coalesced.
SplitOff(s, bp, asize, csize) ==
    With(PutTags(s.mem, bp, PACK(asize, 1)), LAMBDA m2 :
    With(NEXT_BLKP(m2, bp), LAMBDA nb :
    With(add_freeblock([s EXCEPT !.mem = PutTags(m2, nb, PACK(csize - asize, 0))], nb),
         LAMBDA s2 : coalesce(s2, nb).s)))

\* Mutant of place: a block taken whole stays on the free list.
place_keep(s, bp, asize) ==
    LET csize == GET_SIZE(s.mem, HDRP(bp))
    IN  IF csize < asize \/ (csize - asize) >= MINCHUNKSIZE
        THEN With(remove_freeblock(s, bp), LAMBDA s1 : SplitOff(s1, bp, asize, csize))
        ELSE [s EXCEPT !.mem = PutTags(s.mem, bp, PACK(csize, 1))]

\* Mutant of place: a block taken whole gets its header rewritten but not
\* its footer.
place_nofooter(s, bp, asize) ==
    LET csize == GET_SIZE(s.mem, HDRP(bp))
    IN  IF csize < asize \/ (csize - asize) >= MINCHUNKSIZE
        THEN With(remove_freeblock(s, bp), LAMBDA s1 : SplitOff(s1, bp, asize, csize))
        ELSE With(remove_freeblock(s, bp), LAMBDA s1 :
                 [s1 EXCEPT !.mem = PUT(s1.mem, HDRP(bp), PACK(csize, 1))])

\* csize - asize is unsigned: a negative difference wraps to a huge value.
place(s, bp, asize) ==
    LET csize == GET_SIZE(s.mem, HDRP(bp))
    IN  IF csize < asize \/ (csize - asize) >= MINCHUNKSIZE
        THEN With(remove_freeblock(s, bp), LAMBDA s1 : SplitOff(s1, bp, asize, csize))
        ELSE With(remove_freeblock(s, bp), LAMBDA s1 :
                 [s1 EXCEPT !.mem = PutTags(s1.mem, bp, PACK(csize, 1))])

shrink(s, bp, asize) ==
    LET csize == GET_SIZE(s.mem, HDRP(bp))
    IN  IF csize < asize
        THEN SplitOff(s, bp, asize, csize)
        ELSE s

\* Mutant of mm_malloc: the free list is not searched, every request is
\* served by growing the arena.
mm_malloc_no_search(s, size) ==
    IF size = 0
    THEN [s |-> s, ret |-> NULL]
    ELSE LET size1 == IF size < 2 * DSIZE THEN 2 * DSIZE ELSE size
             asize == 1 * WSIZE + ALIGN(size1) + 1 * WSIZE
         IN  With(extend_heap(s, MAX(asize, EXTENDSIZE) \div WSIZE), LAMBDA e :
                 IF e.ret = NULL
                 THEN [s |-> e.s, ret |-> NULL]
                 ELSE [s |-> place(e.s, e.ret, asize), ret |-> e.ret])

mm_malloc(s, size) ==
    IF size = 0
    THEN \* ignore spurious requests
         [s |-> s, ret |-> NULL]
    ELSE LET size1 == IF size < 2 * DSIZE THEN 2 * DSIZE ELSE size
             asize == 1 * WSIZE + ALIGN(size1) + 1 * WSIZE
         IN  With(find_fit(s, asize), LAMBDA bp :
                 IF bp # NULL
                 THEN [s |-> place(s, bp, asize), ret |-> bp]
                 ELSE \* no fit found: get more memory and place the block
                      With(extend_heap(s, MAX(asize, EXTENDSIZE) \div WSIZE), LAMBDA e :
                          IF e.ret = NULL
                          THEN [s |-> e.s, ret |-> NULL]
                          ELSE [s |-> place(e.s, e.ret, asize), ret |-> e.ret]))

\* Mutant of mm_free: the block is put on the free list with its header and
\* footer still marked allocated.
mm_free_keep_alloc(s, bp) ==
    IF bp = 0
    THEN s
    ELSE With(add_freeblock(s, bp), LAMBDA s1 : coalesce(s1, bp).s)

mm_free(s, bp) ==
    IF bp = 0
    THEN s
    ELSE LET size == GET_SIZE(s.mem, HDRP(bp))
         IN  With(add_freeblock([s EXCEPT !.mem = PutTags(s.mem, bp, PACK(size, 0))], bp),
                  LAMBDA s1 : coalesce(s1, bp).s)

\* memcpy(dst, src, n) on word-aligned dst and src: whole words, then the
\* low n % 4 bytes of the last word (little endian).
memcpy(m, dst, src, n) ==
    [a \in DOMAIN m |->
        IF a >= dst /\ a + 4 <= dst + n THEN m[src + (a - dst)]
        ELSE IF a >= dst /\ a < dst + n
        THEN LET b == 256 ^ (dst + n - a)
             IN  (m[src + (a - dst)] % b) + (m[a] - (m[a] % b))
        ELSE m[a]]

\* memset(dst, c, n) on a word-aligned dst, for a byte c: whole words, then
\* the low n % 4 bytes of the last word.
memset(m, dst, c, n) ==
    [a \in DOMAIN m |->
        IF a >= dst /\ a + 4 <= dst + n THEN c * (1 + 256 + 256 ^ 2 + 256 ^ 3)
        ELSE IF a >= dst /\ a < dst + n
        THEN LET b == 256 ^ (dst + n - a)
             IN  ((c * (1 + 256 + 256 ^ 2 + 256 ^ 3)) % b) + (m[a] - (m[a] % b))
        ELSE m[a]]

\* A size_t operand of calloc: SIZE_T_BYTES base-256 digits, the lowest
\* first.  size_t(hi, lo) is the value hi * 2^32 + lo.
size_t(hi, lo) ==
    [i \in 1 .. SIZE_T_BYTES |->
        IF i <= 4 THEN (lo \div (256 ^ (i - 1))) % 256
        ELSE (hi \div (256 ^ (i - 5))) % 256]

\* The digits of a value that fits 31 bits, as a number.
ToInt(d) == d[1] + 256 * d[2] + (256 ^ 2) * d[3] + (256 ^ 3) * d[4]

\* Sum of a[i] * b[k + 1 - i] over the digit positions i from i on.
RECURSIVE Column(_, _, _, _)
Column(a, b, k, i) ==
    IF i > SIZE_T_BYTES \/ i > k THEN 0
    ELSE (IF k + 1 - i <= SIZE_T_BYTES THEN a[i] * b[k + 1 - i] ELSE 0)
         + Column(a, b, k, i + 1)

\* The digits k .. 2 * SIZE_T_BYTES of the full product of a and b, given
\* the carry into digit k.
RECURSIVE ProductDigits(_, _, _, _)
ProductDigits(a, b, k, carry) ==
    IF k > 2 * SIZE_T_BYTES THEN <<>>
    ELSE With(Column(a, b, k, 1) + carry, LAMBDA t :
             <<t % 256>> \o ProductDigits(a, b, k + 1, t \div 256))

\* nmemb * size as C computes it on size_t: the low SIZE_T_BYTES digits of
\* the product; the digits above them are dropped without notice.
Times(a, b) == With(ProductDigits(a, b, 1, 0), LAMBDA d : SubSeq(d, 1, SIZE_T_BYTES))

\* calloc: the state it leaves and the pointer returned.  memset runs on
\* whatever mm_malloc returned: on NULL with bytes > 0 it stores through the
\* null pointer (fault).
calloc(s, nmemb, size) ==
    With(ToInt(Times(nmemb, size)), LAMBDA bytes :
    With(mm_malloc(s, bytes), LAMBDA r :
        IF r.ret = NULL
        THEN [s |-> r.s, ret |-> NULL, fault |-> bytes > 0]
        ELSE [s |-> [r.s EXCEPT !.mem = memset(r.s.mem, r.ret, 0, bytes)],
              ret |-> r.ret, fault |-> FALSE]))

\* Mutant of the tail of mm_realloc: the old block is freed before the
\* result of malloc is looked at.
realloc_copy_free_first(s, ptr, size, oldsize) ==
    With(mm_malloc(s, size), LAMBDA r :
        IF r.ret = NULL
        THEN [s |-> mm_free(r.s, ptr), ret |-> NULL]
        ELSE With(memcpy(r.s.mem, r.ret, ptr, IF size < oldsize THEN size ELSE oldsize),
                  LAMBDA m1 : [s |-> mm_free([r.s EXCEPT !.mem = m1], ptr), ret |-> r.ret]))

\* Mutant of the tail of mm_realloc: the copy stops 2*DSIZE bytes short of
\* the old data.
realloc_copy_short(s, ptr, size, oldsize) ==
    With(mm_malloc(s, size), LAMBDA r :
        IF r.ret = NULL
        THEN [s |-> r.s, ret |-> NULL]
        ELSE With(memcpy(r.s.mem, r.ret, ptr,
                         (IF size < oldsize THEN size ELSE oldsize) - 2 * DSIZE),
                  LAMBDA m1 : [s |-> mm_free([r.s EXCEPT !.mem = m1], ptr), ret |-> r.ret]))

\* The tail of mm_realloc: malloc, copy, free.
realloc_copy(s, ptr, size, oldsize) ==
    With(mm_malloc(s, size), LAMBDA r :
        IF r.ret = NULL
        THEN \* the original block is left untouched
             [s |-> r.s, ret |-> NULL]
        ELSE With(memcpy(r.s.mem, r.ret, ptr, IF size < oldsize THEN size ELSE oldsize),
                  LAMBDA m1 : [s |-> mm_free([r.s EXCEPT !.mem = m1], ptr), ret |-> r.ret]))

mm_realloc(s, ptr, size) ==
    IF size = 0
    THEN \* this is just free, and we return NULL
         [s |-> mm_free(s, ptr), ret |-> NULL]
    ELSE IF ptr = NULL
    THEN \* this is just malloc
         mm_malloc(s, size)
    ELSE LET oldsize == GET_SIZE(s.mem, HDRP(ptr))
             \* the floor of 2*DSIZE is computed and then overwritten
             asize == 1 * WSIZE + ALIGN(size) + 1 * WSIZE
         IN  IF asize < oldsize
             THEN [s |-> shrink(s, ptr, asize), ret |-> ptr]
             ELSE IF GET_ALLOC(s.mem, HDRP(NEXT_BLKP(s.mem, ptr))) = 0
             THEN \* the next block is free: extend this block
                  With(coalesce(s, NEXT_BLKP(s.mem, ptr)).s, LAMBDA s1 :
                  With(GET_SIZE(s1.mem, HDRP(NEXT_BLKP(s1.mem, ptr)))
                       + GET_SIZE(s1.mem, HDRP(ptr)), LAMBDA new_size :
                      IF new_size >= size
                      THEN With(remove_freeblock(s1, NEXT_BLKP(s1.mem, ptr)), LAMBDA s2 :
                               [s |-> [s2 EXCEPT !.mem = PutTags(s2.mem, ptr,
                                                                 PACK(new_size, 1))],
                                ret |-> ptr])
                      ELSE realloc_copy(s1, ptr, size, oldsize)))
             ELSE realloc_copy(s, ptr, size, oldsize)

(* ------------------------------- validator ----------------------------- *)
\* What the validator prints is modelled as a set of <<text, address>>.
printblock(s, bp) ==
    <<"block", bp, GET_SIZE(s.mem, HDRP(bp)), GET_ALLOC(s.mem, HDRP(bp)),
      GET_SIZE(s.mem, FTRP(s.mem, bp)), GET_ALLOC(s.mem, FTRP(s.mem, bp))>>

\* The messages mm_checkblock prints for the block at bp.
mm_checkblock(s, bp) ==
    (IF GET_SIZE(s.mem, HDRP(bp)) < 24 THEN {<<"Error: Block is too small", bp>>} ELSE {})
    \cup (IF ~aligned(bp) THEN {<<"Error: not aligned", bp>>} ELSE {})
    \cup (IF ~in_heap(s, HDRP(bp)) \/ ~in_heap(s, FTRP(s.mem, bp))
          THEN {<<"Error: Block boundary is outside the heap", bp>>} ELSE {})
    \cup (IF GET(s.mem, HDRP(bp)) # GET(s.mem, FTRP(s.mem, bp))
          THEN {<<"Error: header does not match footer", bp>>} ELSE {})
    \cup (IF GET_ALLOC(s.mem, HDRP(bp)) = 0
             /\ in_heap(s, HDRP(PREV_BLKP(s.mem, bp)))
             /\ GET_ALLOC(s.mem, HDRP(PREV_BLKP(s.mem, bp))) = 0
          THEN {<<"Error: Prev block is free", bp>>} ELSE {})
    \cup (IF GET_ALLOC(s.mem, HDRP(bp)) = 0
             /\ in_heap(s, HDRP(NEXT_BLKP(s.mem, bp)))
             /\ GET_ALLOC(s.mem, HDRP(NEXT_BLKP(s.mem, bp))) = 0
          THEN {<<"Error: Next block is free", bp>>} ELSE {})

\* The loop of mm_checkheap over the block chain from bp on: what it has
\* printed, the free blocks it has counted and the block it stops at.
RECURSIVE checkheap_blocks(_, _, _, _)
checkheap_blocks(s, bp, verbose, acc) ==
    IF GET_SIZE(s.mem, HDRP(bp)) > 0
    THEN With([out |-> acc.out \cup (IF verbose # 0 THEN {printblock(s, bp)} ELSE {})
                              \cup mm_checkblock(s, bp),
               count1 |-> acc.count1 + (IF GET_ALLOC(s.mem, HDRP(bp)) = 0 THEN 1 ELSE 0)],
              LAMBDA acc1 : checkheap_blocks(s, NEXT_BLKP(s.mem, bp), verbose, acc1))
    ELSE [out |-> acc.out, count1 |-> acc.count1, bp |-> bp]

\* The loop of mm_checkheap over the free list from bp on: what it has
\* printed and the nodes it has counted.
RECURSIVE checkheap_list(_, _, _)
checkheap_list(s, bp, acc) ==
    IF bp = NULL THEN acc
    ELSE With([out |-> acc.out
                 \cup (IF PrevOf(s.mem, bp) # NULL /\ bp # NextOf(s.mem, PrevOf(s.mem, bp))
                       THEN {<<"Error: prev pointer inconsistent", bp>>} ELSE {})
                 \cup (IF NextOf(s.mem, bp) # NULL /\ bp # PrevOf(s.mem, NextOf(s.mem, bp))
                       THEN {<<"Error: next pointer inconsistent", bp>>} ELSE {})
                 \cup (IF ~in_heap(s, bp) THEN {<<"Not in heap.", bp>>} ELSE {}),
               count2 |-> acc.count2 + 1],
              LAMBDA acc1 : checkheap_list(s, NextOf(s.mem, bp), acc1))

\* mm_checkheap, for the value hl of heap_listp: the status it returns and
\* what it prints.  The status is the constant 0 of its return statement;
\* the prologue footer test compares a word with itself.
mm_checkheap(s, hl, verbose) ==
    LET heap == DSIZE + mem_heap_lo
        out1 == IF GET_SIZE(s.mem, HDRP(heap)) # DSIZE \/ GET_ALLOC(s.mem, HDRP(heap)) = 0
                THEN {<<"Bad prologue header", heap>>} ELSE {}
        out2 == IF GET(s.mem, HDRP(hl)) # GET(s.mem, HDRP(hl))
                THEN {<<"Bad prologue footer", hl>>} ELSE {}
    IN  With(checkheap_blocks(s, hl, verbose, [out |-> out1 \cup out2, count1 |-> 0]),
             LAMBDA b :
        With(b.out \cup (IF GET_SIZE(s.mem, HDRP(b.bp)) # 0
                            \/ GET_ALLOC(s.mem, HDRP(b.bp)) = 0
                         THEN {<<"Bad epilogue header", b.bp>>} ELSE {}),
             LAMBDA out3 :
        With(checkheap_list(s, s.dl_start, [out |-> out3, count2 |-> 0]), LAMBDA l :
            [ret |-> 0,
             out |-> l.out \cup (IF b.count1 # l.count2
                                 THEN {<<"Error: free blocks count not matching", NULL>>}
                                 ELSE {})])))

(* ------------------------- reading the heap ---------------------------- *)
\* Payload address of the first real block: the arena starts with the
\* padding word, the two prologue words and the first block's header.
FirstBlock == mem_heap_lo + 4 * WSIZE

\* The block chain as mm_checkheap walks it: from bp on, block by block,
\* until a header of size 0.  The walk of the model also ends where a
\* header would lie outside the arena.
RECURSIVE ChainFrom(_)
ChainFrom(bp) ==
    IF HDRP(bp) < mem_heap_lo \/ HDRP(bp) + WSIZE > mem_brk THEN <<>>
    ELSE IF GET_SIZE(mem, HDRP(bp)) = 0 THEN <<>>
    ELSE <<bp>> \o ChainFrom(NEXT_BLKP(mem, bp))

Chain == ChainFrom(FirstBlock)
ChainSet == {Chain[i] : i \in 1 .. Len(Chain)}

IsFree(bp) == GET_ALLOC(mem, HDRP(bp)) = 0
BlockSize(m, bp) == GET_SIZE(m, HDRP(bp))
\* Payload capacity: the block without its header and footer words.
Capacity(m, bp) == BlockSize(m, bp) - 2 * WSIZE

\* Sum of the sizes of the free blocks among the blocks c[i], i from i on.
RECURSIVE FreeBytes(_, _)
FreeBytes(c, i) ==
    IF i > Len(c) THEN 0
    ELSE (IF IsFree(c[i]) THEN BlockSize(mem, c[i]) ELSE 0) + FreeBytes(c, i + 1)

\* Total free capacity: the sum of the sizes of all free blocks of the chain.
TotalFree == With(Chain, LAMBDA c : FreeBytes(c, 1))

(* ------------------------------- the program --------------------------- *)
\* The allocator state the helpers work on.
Cur == [mem |-> mem, brk |-> mem_brk, dl_start |-> dl_start, dl_end |-> dl_end]

\* Record of a call: its name, pointer and size arguments and result,
\* whether the product of calloc's arguments wrapped, what the call
\* printed, and the total free capacity and the arena's end at the time the
\* call was made.
Call(name, ptr, size, ret) ==
    [name |-> name, ptr |-> ptr, size |-> size, ret |-> ret,
     wraps |-> FALSE, out |-> {}, free0 |-> TotalFree, brk0 |-> mem_brk]

NoOp == [name |-> "none", ptr |-> NULL, size |-> 0, ret |-> NULL,
         wraps |-> FALSE, out |-> {}, free0 |-> 0, brk0 |-> mem_start_brk]

Init ==
    /\ mem = [a \in WordAddrs |-> 0]
    /\ mem_brk = mem_start_brk
    /\ mem_max_addr \in {mem_start_brk + l : l \in HeapLimits}
    /\ heap_listp = 0
    /\ dl_start = NULL
    /\ dl_end = NULL
    /\ pc = "start"
    /\ live = <<>>
    /\ op = NoOp
    /\ op0 = NoOp
    /\ nops = 0

\* The client makes one more call or store.
Step ==
    /\ pc = "ready"
    /\ nops < MaxOps
    /\ nops' = nops + 1

\* Write the allocator state s back to the variables.
Commit(s) ==
    /\ mem' = s.mem
    /\ mem_brk' = s.brk
    /\ dl_start' = s.dl_start
    /\ dl_end' = s.dl_end

\* Mutant of mm_init: the alignment padding word is left out.
mm_init_nopad(s) ==
    With(mem_sbrk([s EXCEPT !.dl_start = NULL, !.dl_end = NULL], 3 * WSIZE), LAMBDA r :
        IF r.ret = SBRK_FAILED
        THEN [s |-> r.s, heap_listp |-> SBRK_FAILED, ret |-> -1]
        ELSE With(PUT(PUT(PUT(r.s.mem, r.ret, PACK(DSIZE, 1)),
                          r.ret + (1 * WSIZE), PACK(DSIZE, 1)),
                      r.ret + (2 * WSIZE), PACK(0, 1)), LAMBDA m4 :
             With(extend_heap([r.s EXCEPT !.mem = m4], MINCHUNKSIZE \div WSIZE), LAMBDA e :
                 [s |-> e.s, heap_listp |-> e.ret, ret |-> 0])))

\* mm_init: the state it leaves, the new heap_listp and the status returned.
mm_init(s) ==
    With(mem_sbrk([s EXCEPT !.dl_start = NULL, !.dl_end = NULL], 4 * WSIZE), LAMBDA r :
        IF r.ret = SBRK_FAILED
        THEN [s |-> r.s, heap_listp |-> SBRK_FAILED, ret |-> -1]
        ELSE With(PUT(PUT(PUT(PUT(r.s.mem, r.ret, 0),
                              r.ret + (1 * WSIZE), PACK(DSIZE, 1)),
                          r.ret + (2 * WSIZE), PACK(DSIZE, 1)),
                      r.ret + (3 * WSIZE), PACK(0, 1)), LAMBDA m4 :
             With(extend_heap([r.s EXCEPT !.mem = m4], MINCHUNKSIZE \div WSIZE), LAMBDA e :
                 [s |-> e.s, heap_listp |-> e.ret, ret |-> 0])))

\* The client calls mm_init.  With assertions compiled in, checkheap(0)
\* then walks the heap from heap_listp: when extend_heap failed that pointer
\* is NULL and the walk dereferences it, which crashes; otherwise the
\* program exits when mm_checkheap returns non-zero.  A release build skips
\* the walk.
Mm_init ==
    /\ pc = "start"
    /\ \E r \in {mm_init(Cur)} :
           /\ Commit(r.s)
           /\ heap_listp' = r.heap_listp
           /\ pc' \in (IF r.ret # 0 THEN {"failed"}
                       ELSE IF r.heap_listp = NULL THEN {"ready", "fault"}
                       ELSE IF mm_checkheap(r.s, r.heap_listp, 0).ret # 0
                       THEN {"ready", "aborted"}
                       ELSE {"ready"})
           /\ op' = Call("init", NULL, 0, r.ret)
    /\ UNCHANGED <<mem_max_addr, live, op0, nops>>

Held == DOMAIN live
Drop(p) == [q \in Held \ {p} |-> live[q]]
Hold(f, p, size) == [q \in (DOMAIN f) \cup {p} |-> IF q = p THEN size ELSE f[q]]

\* p = malloc(size)
Malloc(size) ==
    /\ Step
    /\ Cardinality(Held) < MaxLive
    /\ \E r \in {mm_malloc(Cur, size)} :
           /\ Commit(r.s)
           /\ live' = IF r.ret = NULL THEN live ELSE Hold(live, r.ret, size)
           /\ op' = Call("malloc", NULL, size, r.ret)
    /\ op0' = IF op.name = "free" /\ op0.name = "malloc" /\ op0.size = size
              THEN op0 ELSE NoOp
    /\ UNCHANGED <<mem_max_addr, heap_listp, pc>>

\* free(p), for a pointer the client holds, or NULL
Free(p) ==
    /\ Step
    /\ \E s \in {mm_free(Cur, p)} : Commit(s)
    /\ live' = Drop(p)
    /\ op' = Call("free", p, 0, NULL)
    /\ op0' = IF p # NULL /\ op.name = "malloc" /\ op.ret = p THEN op ELSE NoOp
    /\ UNCHANGED <<mem_max_addr, heap_listp, pc>>

\* q = realloc(p, size), for a pointer the client holds, or NULL
Realloc(p, size) ==
    /\ Step
    /\ p = NULL => Cardinality(Held) < MaxLive
    /\ \E r \in {mm_realloc(Cur, p, size)} :
           /\ Commit(r.s)
           /\ live' = IF size = 0 THEN Drop(p)
                      ELSE IF r.ret = NULL THEN live
                      ELSE Hold(Drop(p), r.ret, size)
           /\ op' = Call("realloc", p, size, r.ret)
    /\ op0' = NoOp
    /\ UNCHANGED <<mem_max_addr, heap_listp, pc>>

\* The product of a and b does not fit size_t: a digit above the low
\* SIZE_T_BYTES digits is not 0.
Wraps(a, b) ==
    With(ProductDigits(a, b, 1, 0), LAMBDA d :
        \E k \in (SIZE_T_BYTES + 1) .. (2 * SIZE_T_BYTES) : d[k] # 0)

\* q = calloc(nmemb, size).  A store through the null pointer ends the
\* program.  The client uses of the block the bytes calloc sized it by.
Calloc(nmemb, size) ==
    /\ Step
    /\ Cardinality(Held) < MaxLive
    /\ \E r \in {calloc(Cur, nmemb, size)}, bytes \in {ToInt(Times(nmemb, size))} :
           /\ Commit(r.s)
           /\ live' = IF r.ret = NULL THEN live ELSE Hold(live, r.ret, bytes)
           /\ pc' = IF r.fault THEN "fault" ELSE pc
           /\ op' = [Call("calloc", NULL, bytes, r.ret) EXCEPT !.wraps = Wraps(nmemb, size)]
    /\ op0' = NoOp
    /\ UNCHANGED <<mem_max_addr, heap_listp>>

\* The bytes the client keeps in the word at address a.
Pattern(a) == 90 * (2 ^ 24) + a

\* The client stores its data into a block it holds: the bytes it asked
\* for, as far as the block's payload reaches.
Store(p) ==
    /\ Step
    /\ LET n == MIN(live[p], GET_SIZE(mem, HDRP(p)) - DSIZE)
       IN  mem' = [a \in DOMAIN mem |->
                     IF a >= p /\ a + 4 <= p + n THEN Pattern(a)
                     ELSE IF a >= p /\ a < p + n
                     THEN LET b == 256 ^ (p + n - a)
                          IN  (Pattern(a) % b) + (mem[a] - (mem[a] % b))
                     ELSE mem[a]]
    /\ op' = Call("store", p, live[p], NULL)
    /\ op0' = NoOp
    /\ UNCHANGED <<mem_brk, mem_max_addr, heap_listp, dl_start, dl_end, pc, live>>

Next ==
    \/ Mm_init
    \/ \E size \in ReqSizes : Malloc(size)
    \/ \E p \in Held \cup {NULL} : Free(p)
    \/ \E p \in Held \cup {NULL}, size \in ReqSizes : Realloc(p, size)
    \/ \E a \in CallocArgs :
           \E nmemb \in {size_t(a[1][1], a[1][2])}, size \in {size_t(a[2][1], a[2][2])} :
               Calloc(nmemb, size)
    \/ \E p \in Held : Store(p)

Spec == Init /\ [][Next]_vars

\* The program after mm_init() and malloc(16); malloc(16); malloc(16) in an
\* arena of MaxHeap bytes: three minimum blocks the client holds, followed
\* by one free block.  From here the client's calls bring the free list to
\* three nodes and remove its middle node.
InitWarm ==
    /\ mem_max_addr = mem_start_brk + MaxHeap
    /\ \E i \in {mm_init([mem |-> [a \in WordAddrs |-> 0], brk |-> mem_start_brk,
                          dl_start |-> NULL, dl_end |-> NULL])} :
       \E r1 \in {mm_malloc(i.s, 2 * DSIZE)} :
       \E r2 \in {mm_malloc(r1.s, 2 * DSIZE)} :
       \E r3 \in {mm_malloc(r2.s, 2 * DSIZE)} :
           /\ mem = r3.s.mem
           /\ mem_brk = r3.s.brk
           /\ dl_start = r3.s.dl_start
           /\ dl_end = r3.s.dl_end
           /\ heap_listp = i.heap_listp
           /\ live = Hold(Hold(Hold(<<>>, r1.ret, 2 * DSIZE), r2.ret, 2 * DSIZE),
                          r3.ret, 2 * DSIZE)
    /\ pc = "ready"
    /\ op = NoOp
    /\ op0 = NoOp
    /\ nops = 0

\* From there the client allocates, frees and reallocates blocks of 16 and
\* 45 bytes.
WarmSizes == {2 * DSIZE, 45}

NextWarm ==
    \/ \E size \in WarmSizes : Malloc(size)
    \/ \E p \in Held : Free(p)
    \/ \E p \in Held, size \in WarmSizes : Realloc(p, size)

SpecWarm == InitWarm /\ [][NextWarm]_vars

\* The client writes one word past the payload of a block it holds: the
\* block's footer.  It makes no call to the allocator after that.
Overrun(p) ==
    /\ pc = "ready"
    /\ mem' = PUT(mem, FTRP(mem, p), Pattern(FTRP(mem, p)))
    /\ pc' = "overrun"
    /\ op' = Call("overrun", p, Capacity(mem, p) + WSIZE, NULL)
    /\ op0' = NoOp
    /\ UNCHANGED <<mem_brk, mem_max_addr, heap_listp, dl_start, dl_end, live, nops>>

\* The driver runs checkheap(verbose), the macro of a build with
\* assertions: mm_checkheap, and exit when it returns non-zero.
Checkheap(verbose) ==
    /\ pc \in {"ready", "overrun"}
    /\ op.name # "checkheap"
    /\ \E r \in {mm_checkheap(Cur, heap_listp, verbose)} :
           /\ pc' = IF r.ret # 0 THEN "aborted" ELSE pc
           /\ op' = [Call("checkheap", NULL, verbose, r.ret) EXCEPT !.out = r.out]
    /\ op0' = NoOp
    /\ UNCHANGED <<mem, mem_brk, mem_max_addr, heap_listp, dl_start, dl_end, live, nops>>

\* The warm-start runs with a client that may overrun a block, and a driver
\* that validates the heap.
NextCheck ==
    \/ NextWarm
    \/ \E p \in Held : Overrun(p)
    \/ \E verbose \in {0, 1} : Checkheap(verbose)

SpecCheck == InitWarm /\ [][NextCheck]_vars

(* ------------------------- reading the free list ----------------------- *)
\* The free list as mm_checkheap walks it: from node bp on along the next
\* links; n bounds the walk of the model, so that it ends on a cyclic list.
RECURSIVE FreeListFrom(_, _)
FreeListFrom(bp, n) ==
    IF bp = NULL \/ n = 0 THEN <<>>
    ELSE <<bp>> \o FreeListFrom(NextOf(mem, bp), n - 1)

FreeList == FreeListFrom(dl_start, MaxHeap \div MINCHUNKSIZE + 1)

\* A public operation has completed and the allocator can be used.
Ready == pc = "ready"

\* The block size a request of size bytes needs: header, footer and the
\* payload, at least two link widths, rounded up to a multiple of 8.
Adjusted(size) == 1 * WSIZE + ALIGN(MAX(size, 2 * DSIZE)) + 1 * WSIZE

\* No free block of the chain has asize bytes.
NoFit(asize) == \A i \in 1 .. Len(Chain) : IsFree(Chain[i]) => BlockSize(mem, Chain[i]) < asize
\* The arena cannot grow by what a request of asize bytes asks for.
GrowthFails(asize) == mem_brk + MAX(asize, EXTENDSIZE) > mem_max_addr

\* The allocator's own state is what it was before the step.
AllocatorUnchanged ==
    /\ mem' = mem
    /\ mem_brk' = mem_brk
    /\ dl_start' = dl_start
    /\ dl_end' = dl_end
    /\ heap_listp' = heap_listp

\* The n bytes at a2 in m2 are the n bytes at a1 in m1 (a1, a2 word aligned).
SameBytes(m2, a2, m1, a1, n) ==
    \A i \in 0 .. ((n - 1) \div 4) :
        IF n - 4 * i >= 4
        THEN m2[a2 + 4 * i] = m1[a1 + 4 * i]
        ELSE m2[a2 + 4 * i] % (256 ^ (n - 4 * i)) = m1[a1 + 4 * i] % (256 ^ (n - 4 * i))

\* The bytes [a, a + n) and [b, b + k) have no byte in common.
Disjoint(a, n, b, k) == a + n <= b \/ b + k <= a

\* The allocated blocks of the chain.
AllocatedBlocks == {bp \in ChainSet : ~IsFree(bp)}

(* ------------------------------ claims --------------------------------- *)

\* C1: a non-null pointer returned by malloc(size), size > 0, designates an
\* allocated block of the chain whose payload capacity is at least size and
\* whose payload shares no byte with the header, payload or footer of any
\* block the client held before the call.
C1_MallocFreshBlock ==
    [][(op'.name = "malloc" /\ op'.ret # NULL) =>
          /\ op'.size > 0
          /\ op'.ret \in AllocatedBlocks'
          /\ Capacity(mem', op'.ret) >= op'.size
          /\ \A q \in DOMAIN live :
                Disjoint(op'.ret, Capacity(mem', op'.ret),
                         HDRP(q), BlockSize(mem', q))]_vars

\* C1 witness: malloc returned a block while the client held two others.
C1_Witness ==
    /\ Ready
    /\ op.name = "malloc"
    /\ op.ret # NULL
    /\ Cardinality(Held) = 3
    /\ Capacity(mem, op.ret) >= op.size

\* C2 (as claimed): a non-null pointer returned by realloc(ptr, size), ptr
\* non-null and size > 0, designates a block whose payload capacity is at
\* least size.
C2_ReallocCapacity ==
    (Ready /\ op.name = "realloc" /\ op.ptr # NULL /\ op.size > 0 /\ op.ret # NULL)
        => Capacity(mem, op.ret) >= op.size


\* C3: after every completed public operation no two blocks that are
\* adjacent in the block chain are both free.
C3_NoAdjacentFree ==
    Ready => \A i \in 1 .. Len(Chain) - 1 : ~(IsFree(Chain[i]) /\ IsFree(Chain[i + 1]))

\* C3 witness: a free has completed next to a free block and the two were
\* merged: the chain holds a free block larger than any block the client
\* asked for, between two allocated blocks or the arena's end.
C3_Witness ==
    /\ Ready
    /\ op.name = "free"
    /\ op.ptr # NULL
    /\ \E i \in 1 .. Len(Chain) :
          /\ IsFree(Chain[i])
          /\ Chain[i] < op.ptr
          /\ op.ptr < Chain[i] + BlockSize(mem, Chain[i])

\* C4: after every completed public operation the number of free blocks in
\* the block chain equals the number of nodes on the free list.
C4_FreeCountMatches ==
    Ready => Cardinality({i \in 1 .. Len(Chain) : IsFree(Chain[i])}) = Len(FreeList)

\* C4 witness: two free blocks, two list nodes, after a removal from the list.
C4_Witness ==
    /\ Ready
    /\ op.name = "malloc"
    /\ op.ret # NULL
    /\ Len(FreeList) = 2
    /\ Cardinality({i \in 1 .. Len(Chain) : IsFree(Chain[i])}) = 2

\* C5: after every completed public operation every block of the chain has
\* a footer word equal to its header word.
C5_HeaderEqualsFooter ==
    Ready => \A i \in 1 .. Len(Chain) :
                GET(mem, HDRP(Chain[i])) = GET(mem, FTRP(mem, Chain[i]))

\* C5 witness: a chain of at least four blocks, free and allocated, after a
\* realloc that moved a block.
C5_Witness ==
    /\ Ready
    /\ op.name = "realloc"
    /\ op.ret # NULL
    /\ op.ret # op.ptr
    /\ op.ptr # NULL
    /\ Len(Chain) >= 4
    /\ \E i \in 1 .. Len(Chain) : IsFree(Chain[i])

\* C6: with the arena's low bound 8-byte aligned, after every completed
\* public operation every block's payload address is 8-byte aligned and its
\* header and footer words lie within the arena, and every pointer returned
\* by malloc, realloc or calloc is 8-byte aligned.
C6_AlignedInBounds ==
    Ready =>
        /\ \A i \in 1 .. Len(Chain) :
              /\ aligned(Chain[i])
              /\ HDRP(Chain[i]) >= mem_heap_lo
              /\ FTRP(mem, Chain[i]) >= HDRP(Chain[i])
              /\ FTRP(mem, Chain[i]) + WSIZE <= mem_brk
        /\ (op.name \in {"malloc", "realloc", "calloc"} /\ op.ret # NULL) => aligned(op.ret)

\* C6 witness: malloc returned a pointer into an arena that has grown.
C6_Witness ==
    /\ Ready
    /\ op.name = "malloc"
    /\ op.ret # NULL
    /\ op.size = 45
    /\ mem_brk = mem_start_brk + MaxHeap
    /\ Len(Chain) >= 3

\* C7: after realloc(ptr, size), ptr non-null and size > 0, returned a
\* non-null pointer, the first min(old payload capacity, size) bytes at
\* that pointer are the bytes that were at ptr before the call, and the
\* payload bytes of every other block the client holds are unchanged.
C7_ReallocKeepsData ==
    [][(op'.name = "realloc" /\ op'.ptr # NULL /\ op'.size > 0 /\ op'.ret # NULL) =>
          /\ SameBytes(mem', op'.ret, mem, op'.ptr,
                       MIN(Capacity(mem, op'.ptr), op'.size))
          /\ \A q \in DOMAIN live \ {op'.ptr} :
                SameBytes(mem', q, mem, q, Capacity(mem, q))]_vars

\* C7 witness: realloc moved a block whose payload held the client's data to
\* another address while the client held a second block.
C7_Witness ==
    /\ Ready
    /\ op.name = "realloc"
    /\ op.ptr # NULL
    /\ op.ret # NULL
    /\ op.ret # op.ptr
    /\ op.size = 45
    /\ Cardinality(Held) >= 2
    /\ mem[op.ret] = Pattern(op.ptr)
    /\ mem[op.ret + 12] = Pattern(op.ptr + 12)

\* C8 (as claimed): realloc(ptr, size), size > 0, on a block whose size is
\* at least the adjusted request returns ptr, absorbs no neighbour and
\* allocates no other block.
C8_ReallocInPlace ==
    [][(op'.name = "realloc" /\ op'.ptr # NULL /\ op'.size > 0
        /\ Adjusted(op'.size) <= BlockSize(mem, op'.ptr)) =>
          /\ op'.ret = op'.ptr
          /\ BlockSize(mem', op'.ptr) <= BlockSize(mem, op'.ptr)
          /\ AllocatedBlocks' = AllocatedBlocks
          /\ SameBytes(mem', op'.ptr, mem, op'.ptr, Capacity(mem', op'.ptr))]_vars

\* C9: when malloc(size), size > 0, finds no free block that fits and the
\* arena cannot grow, it returns NULL; and whenever malloc returns NULL the
\* arena, its bounds and the free list are what they were before the call.
C9_FailedMallocNoChange ==
    [][(op'.name = "malloc" /\ op'.size > 0) =>
          /\ (NoFit(Adjusted(op'.size)) /\ GrowthFails(Adjusted(op'.size)))
                => op'.ret = NULL
          /\ op'.ret = NULL => (AllocatorUnchanged /\ live' = live)]_vars

\* C9 witness: malloc failed for want of arena while the free list held a
\* block that was too small.
C9_Witness ==
    /\ Ready
    /\ op.name = "malloc"
    /\ op.size > 0
    /\ op.ret = NULL
    /\ dl_start # NULL
    /\ Len(Chain) >= 3

\* realloc(p, size) cannot be served by the block at p, nor by that block
\* together with a free right neighbour.
MustFallBack(p, size) ==
    /\ Adjusted(size) > BlockSize(mem, p)
    /\ \/ ~IsFree(NEXT_BLKP(mem, p))
       \/ BlockSize(mem, NEXT_BLKP(mem, p)) + BlockSize(mem, p) < size

\* C10: when realloc(ptr, size), ptr non-null and size > 0, has to fall back
\* to malloc, copy and free and that malloc fails, it returns NULL; and
\* whenever realloc returns NULL the arena (the block at ptr, its right
\* neighbour and every other word), its bounds and the free list are what
\* they were before the call.
C10_FailedReallocNoChange ==
    [][(op'.name = "realloc" /\ op'.ptr # NULL /\ op'.size > 0) =>
          /\ (/\ MustFallBack(op'.ptr, op'.size)
              /\ NoFit(Adjusted(op'.size))
              /\ GrowthFails(Adjusted(op'.size)))
                => op'.ret = NULL
          /\ op'.ret = NULL => (AllocatorUnchanged /\ live' = live)]_vars

\* C10 witness: realloc failed on a block whose right neighbour is free and
\* too small.
C10_Witness ==
    /\ Ready
    /\ op.name = "realloc"
    /\ op.ptr # NULL
    /\ op.size > 0
    /\ op.ret = NULL
    /\ IsFree(NEXT_BLKP(mem, op.ptr))
    /\ BlockSize(mem, NEXT_BLKP(mem, op.ptr)) + BlockSize(mem, op.ptr) < op.size

\* C11 (as claimed): when the allocation inside calloc(nmemb, size) fails
\* (the arena cannot grow, or nmemb * size is 0), calloc returns NULL and
\* nothing is stored through the null pointer.
C11_CallocFailureNoFill ==
    (op.name = "calloc" /\ op.ret = NULL) => pc # "fault"

\* C12 (as claimed): when the product of calloc's arguments does not fit
\* size_t, calloc returns NULL and allocates no block sized by the wrapped
\* product.
C12_CallocOverflowFails ==
    (op.name = "calloc" /\ op.wraps) => op.ret = NULL

\* C13 (as claimed): malloc(n), n > 0, that succeeds, followed immediately
\* by free of the pointer it returned, leaves the total free capacity what
\* it was before the malloc.
C13_RoundTripConserves ==
    (op.name = "free" /\ op0.name = "malloc") => TotalFree = op0.free0

\* C13 (amended): malloc(n), n > 0, that succeeds, followed immediately by
\* free of the pointer it returned, leaves the total free capacity what it
\* was before the malloc plus the bytes the malloc grew the arena by; it is
\* conserved when the malloc was served from the free list.
C13_RoundTrip ==
    (op.name = "free" /\ op0.name = "malloc") =>
        /\ op.ptr = op0.ret /\ op0.ret # NULL /\ op0.size > 0
        /\ TotalFree = op0.free0 + (mem_brk - op0.brk0)
        /\ mem_brk = op.brk0

\* C13 witness: a malloc that split a block of the free list, with no growth
\* of the arena, has been undone by free while the client holds another
\* block.
C13_Witness ==
    /\ Ready
    /\ op0.name = "malloc"
    /\ op.name = "free"
    /\ op0.size = 16
    /\ mem_brk = op0.brk0
    /\ op0.free0 > Adjusted(16)
    /\ TotalFree = op0.free0
    /\ Held # {}

\* C14: after malloc(n), n > 0, succeeded and the pointer it returned was
\* freed immediately, a malloc(n) that follows immediately succeeds with a
\* block that was free before the call, and leaves the arena's bounds
\* unchanged.
C14_ReallocateWithoutGrowth ==
    [][(op.name = "free" /\ op0.name = "malloc"
        /\ op'.name = "malloc" /\ op'.size = op0.size) =>
          /\ op'.ret # NULL
          /\ op'.ret \in ChainSet /\ IsFree(op'.ret)
          /\ op'.ret \in AllocatedBlocks'
          /\ mem_brk' = mem_brk
          /\ mem_max_addr' = mem_max_addr]_vars

\* C14 witness: the third call of malloc(n); free; malloc(n) has returned a
\* block, in an arena that the first call had grown and the third did not,
\* while the client holds another block.
C14_Witness ==
    /\ Ready
    /\ op.name = "malloc"
    /\ op0.name = "malloc"
    /\ op.size = op0.size
    /\ op.ret # NULL
    /\ op0.brk0 < mem_brk
    /\ op.brk0 = mem_brk
    /\ Cardinality(Held) >= 2

\* C15 (as claimed): realloc(ptr, size), size > 0, on a block that is larger
\* than the adjusted request by at least MINCHUNKSIZE bytes returns ptr and
\* leaves at ptr an allocated block of exactly the adjusted size, followed
\* by a free block that is on the free list and whose right neighbour is
\* not free.
C15_ReallocShrinks ==
    [][(op'.name = "realloc" /\ op'.ptr # NULL /\ op'.size > 0
        /\ BlockSize(mem, op'.ptr) - Adjusted(op'.size) >= MINCHUNKSIZE) =>
          /\ op'.ret = op'.ptr
          /\ BlockSize(mem', op'.ptr) = Adjusted(op'.size)
          /\ GET_ALLOC(mem', HDRP(op'.ptr)) = 1
          /\ \E i \in 1 .. Len(FreeList') :
                /\ FreeList'[i] = op'.ptr + Adjusted(op'.size)
                /\ GET_ALLOC(mem', HDRP(FreeList'[i])) = 0
                /\ GET_ALLOC(mem', HDRP(NEXT_BLKP(mem', FreeList'[i]))) = 1]_vars

\* The positions of the free list whose block has at least asize bytes.
Fits(asize) == {i \in 1 .. Len(FreeList) : BlockSize(mem, FreeList[i]) >= asize}

\* C16: when the free list holds a block of at least the adjusted request
\* size, malloc(size), size > 0, returns the first such block in list order
\* from the head and does not grow the arena; malloc grows the arena only
\* when no block of the free list fits.
C16_FirstFit ==
    [][(op'.name = "malloc" /\ op'.size > 0) =>
          /\ Fits(Adjusted(op'.size)) # {} =>
                /\ \E i \in Fits(Adjusted(op'.size)) :
                      /\ op'.ret = FreeList[i]
                      /\ \A j \in Fits(Adjusted(op'.size)) : i <= j
                /\ mem_brk' = mem_brk
          /\ mem_brk' # mem_brk => Fits(Adjusted(op'.size)) = {}]_vars

\* C16 witness: malloc split the block it returned off a block of the free
\* list, without growing the arena, while the list held another block that
\* fits the request and is smaller than the block that was split.
C16_Witness ==
    /\ Ready
    /\ op.name = "malloc"
    /\ op.ret # NULL
    /\ op.brk0 = mem_brk
    /\ IsFree(NEXT_BLKP(mem, op.ret))
    /\ \E i \in 1 .. Len(FreeList) :
          /\ FreeList[i] # NEXT_BLKP(mem, op.ret)
          /\ BlockSize(mem, FreeList[i]) >= Adjusted(op.size)
          /\ BlockSize(mem, FreeList[i])
               < BlockSize(mem, op.ret) + BlockSize(mem, NEXT_BLKP(mem, op.ret))

\* C17: after every completed public operation the free list is a
\* well-formed doubly-linked list: it is empty with dl_start and dl_end both
\* NULL, or the walk from dl_start along the next links passes no node
\* twice and ends at dl_end, the head's prev and the tail's next are NULL,
\* n.next.prev = n and n.prev.next = n for every node n with such a
\* neighbour, and every node lies within the arena.
C17_FreeListWellFormed ==
    Ready =>
        /\ dl_start = NULL <=> dl_end = NULL
        /\ dl_start # NULL =>
              /\ PrevOf(mem, dl_start) = NULL
              /\ NextOf(mem, dl_end) = NULL
              /\ FreeList[Len(FreeList)] = dl_end
        /\ \A i, j \in 1 .. Len(FreeList) : FreeList[i] = FreeList[j] => i = j
        /\ \A i \in 1 .. Len(FreeList) :
              /\ in_heap(Cur, FreeList[i])
              /\ NextOf(mem, FreeList[i]) # NULL =>
                    PrevOf(mem, NextOf(mem, FreeList[i])) = FreeList[i]
              /\ PrevOf(mem, FreeList[i]) # NULL =>
                    NextOf(mem, PrevOf(mem, FreeList[i])) = FreeList[i]

\* C17 witness: malloc has taken the middle node of a free list of three
\* nodes and split it: the payload of the block it returned still holds the
\* links that the node had, to the nodes that are now the first and the
\* second of the list, and the rest split off the block is the third.
C17_Witness ==
    /\ Ready
    /\ op.name = "malloc"
    /\ op.ret # NULL
    /\ Len(FreeList) = 3
    /\ PrevOf(mem, op.ret) = FreeList[1]
    /\ NextOf(mem, op.ret) = FreeList[2]
    /\ NextOf(mem, FreeList[1]) = FreeList[2]
    /\ PrevOf(mem, FreeList[2]) = FreeList[1]
    /\ FreeList[3] = NEXT_BLKP(mem, op.ret)

\* Some block of the chain has a footer word that differs from its header
\* word.
HeaderFooterMismatch ==
    \E i \in 1 .. Len(Chain) : GET(mem, HDRP(Chain[i])) # GET(mem, FTRP(mem, Chain[i]))

\* C18 (as claimed): mm_checkheap run on a heap that violates an invariant
\* it checks (here: a block whose footer differs from its header) returns a
\* non-zero status, and checkheap then ends the program.
C18_CheckheapFailsFast ==
    (op.name = "checkheap" /\ HeaderFooterMismatch) =>
        (op.ret # 0 /\ pc = "aborted")

\* Sum of the sizes of the blocks c[i], i from i on.
RECURSIVE SizeSum(_, _)
SizeSum(c, i) == IF i > Len(c) THEN 0 ELSE BlockSize(mem, c[i]) + SizeSum(c, i + 1)

\* C19: after every completed public operation the block chain tiles the
\* arena: the words after the padding word are the two prologue words, each
\* PACK(DSIZE, 1); every block the walk from the first block visits has a
\* size that is a multiple of 8 and at least MINCHUNKSIZE and lies within
\* the arena; the walk ends at the arena's last word, which is the epilogue
\* header PACK(0, 1); and the block sizes add up to the arena size less the
\* padding, prologue and epilogue words.
C19_ChainTilesArena ==
    Ready =>
        /\ GET(mem, mem_heap_lo + 1 * WSIZE) = PACK(DSIZE, 1)
        /\ GET(mem, mem_heap_lo + 2 * WSIZE) = PACK(DSIZE, 1)
        /\ \A i \in 1 .. Len(Chain) :
              /\ BlockSize(mem, Chain[i]) % 8 = 0
              /\ BlockSize(mem, Chain[i]) >= MINCHUNKSIZE
              /\ HDRP(Chain[i]) + BlockSize(mem, Chain[i]) + WSIZE <= mem_brk
        /\ HDRP(FirstBlock + SizeSum(Chain, 1)) = mem_brk - WSIZE
        /\ GET(mem, mem_brk - WSIZE) = PACK(0, 1)
        /\ SizeSum(Chain, 1) = (mem_brk - mem_heap_lo) - 4 * WSIZE

\* C19 witness: a grown arena of at least four blocks, free and allocated,
\* after a free that merged two blocks.
C19_Witness ==
    /\ Ready
    /\ op.name = "free"
    /\ op.ptr # NULL
    /\ mem_brk = mem_start_brk + MaxHeap
    /\ Len(Chain) >= 4
    /\ \E i \in 1 .. Len(Chain) : ~IsFree(Chain[i])
    /\ \E i \in 1 .. Len(Chain) :
          IsFree(Chain[i]) /\ Chain[i] <= op.ptr
          /\ BlockSize(mem, Chain[i]) > GET_SIZE(mem, HDRP(op.ptr))
    /\ SizeSum(Chain, 1) = MaxHeap - 4 * WSIZE

\* C20 (as claimed): mm_init returns a failure status when a growth request
\* it makes fails: it never returns 0 with heap_listp NULL or the heap
\* without its first free block.
C20_InitFailureReported ==
    (op.name = "init" /\ op.ret = 0) =>
        /\ heap_listp # NULL
        /\ dl_start # NULL
        /\ Len(Chain) >= 1
====
